---- MODULE Spec2Model ----
(***************************************************************************)
(* A model of fp-ts' Task module (src/unnamed/part_000) on top of the host *)
(* promise machinery it uses (promises, reactions, the microtask queue,    *)
(* Promise.race, Promise.all, setTimeout), and of the chunking functions   *)
(* of ReadonlyArray (src/es6/ReadonlyArray.js).                            *)
(*                                                                         *)
(* A Task is a zero-argument function returning a promise.  Tasks are      *)
(* represented by terms (records tagged by op) that are exactly the        *)
(* closures the combinators return; Invoke runs the closure's body.        *)
(***************************************************************************)
EXTENDS Integers, Sequences, FiniteSets, TLC

VARIABLES
    prog,     \* the task(s) under test: a sequence of one or two task terms
    runs,     \* runs[r] = [t |-> index in prog, p |-> the promise the r-th invocation returned]
    heap,     \* heap[r][i]: the i-th promise created on behalf of the r-th invocation
    jobs,     \* the host's microtask (promise job) queue, FIFO
    timers,   \* pending setTimeout callbacks
    log,      \* log[r]: what the r-th invocation did to caller-supplied tasks and functions, in order
    arr       \* the array operation under test and its result

vars == <<prog, runs, heap, jobs, timers, log, arr>>

\* ---------------------------------------------------------------- bounds

\* how many times the task(s) under test are invoked
MaxRuns == 2
\* longest input array
MaxLen == 4
\* largest chunk size tried
MaxN == 5

\* ---------------------------------------------------------------- values

\* Plain data resolved by tasks: a string-like value, so that the semigroup
\* used below (concatenation) is associative but not commutative.
Data(s) == [k |-> "data", s |-> s]

\* no value yet (a pending promise), JavaScript's undefined
NoVal == [k |-> "undefined"]

\* The caller's semigroup S / monoid M: concatenation with the empty string.
SConcat(a, b) == Data(a.s \o b.s)

MEmpty == Data(<<>>)

\* Caller-supplied and library-made functions, as values.
\* identity (function.ts), used by flatten and by the functor identity law
FnIdentity == [k |-> "identity"]
\* a caller's f: appends a suffix
FnAppend(s) == [k |-> "append", s |-> s]
\* (a) => () => a, the function apFirst maps over fa
FnMkConst == [k |-> "mkConst"]
\* () => (b) => b, the function apSecond maps over fa
FnMkSecond == [k |-> "mkSecond"]
\* () => a, with a captured
FnConst(a) == [k |-> "const", c |-> a]

IsFn(f) == f.k \in {"identity", "append", "mkConst", "mkSecond", "const"}

\* f(a)
Apply(f, a) ==
    CASE f.k = "identity" -> a
      [] f.k = "append" -> Data(a.s \o f.s)
      [] f.k = "mkConst" -> FnConst(a)
      [] f.k = "mkSecond" -> FnIdentity
      [] f.k = "const" -> f.c

\* the array Promise.all resolves with
Arr(items) == [k |-> "array", items |-> items]

\* the reason a rejecting caller task rejects with
Err == [k |-> "error"]

\* ---------------------------------------------------------------- tasks

\* A task supplied by the caller: invoking it starts a computation that the
\* environment completes later with v (or, for a task that breaks the Task
\* contract, rejects).
Leaf(id, v) == [op |-> "leaf", id |-> id, v |-> v, rej |-> FALSE]

RejLeaf(id) == [op |-> "leaf", id |-> id, v |-> Err, rej |-> TRUE]

\* never = () => new Promise((_) => undefined)
Never == [op |-> "never"]

\* of(a) = () => Promise.resolve(a)
Of(a) == [op |-> "of", a |-> a]

\* fromIO(ma) = () => Promise.resolve(ma()); the IO ma returns v
FromIO(id, v) == [op |-> "fromIO", id |-> id, v |-> v]

\* getSemigroup(S).concat(x, y)
SemigroupConcat(x, y) == [op |-> "concat", x |-> x, y |-> y]

\* getMonoid(M).empty = of(M.empty)
MonoidEmpty == Of(MEmpty)

\* getMonoid(M).concat = getSemigroup(M).concat
MonoidConcat(x, y) == SemigroupConcat(x, y)

\* getRaceMonoid().concat(x, y)
RaceConcat(x, y) == [op |-> "race", x |-> x, y |-> y]

\* getRaceMonoid().empty = never
RaceEmpty == Never

\* delay(millis)(ma)
Delay(millis, ma) == [op |-> "delay", millis |-> millis, ma |-> ma]

\* map(f)(fa)
Map(f, fa) == [op |-> "map", f |-> f, fa |-> fa]

\* ap(fa)(fab)
Ap(fa, fab) == [op |-> "ap", fa |-> fa, fab |-> fab]

\* apFirst(fb)(fa) = pipe(fa, map((a) => () => a), ap(fb))
ApFirst(fb, fa) == Ap(fb, Map(FnMkConst, fa))

\* apSecond(fb)(fa) = pipe(fa, map(() => (b) => b), ap(fb))
ApSecond(fb, fa) == Ap(fb, Map(FnMkSecond, fa))

\* chain(f)(ma)
Chain(f, ma) == [op |-> "chain", f |-> f, ma |-> ma]

\* Functions from a value to a task (the argument of chain).
\* a => of(a)
KOf == [kk |-> "of"]
\* a caller's f: a => a task of the caller that resolves with a followed by id
KLeaf(id) == [kk |-> "leaf", id |-> id]
\* a => chain(g)(f(a)), the right-hand side of the associativity law
KThen(f, g) == [kk |-> "then", f |-> f, g |-> g]
\* (a) => pipe(f(a), map(() => a)), the function chainFirst chains
KFirst(f) == [kk |-> "first", f |-> f]
\* identity, the function flatten chains: the value is itself a task
KIdentity == [kk |-> "identity"]

RECURSIVE KApply(_, _)
\* f(a), a task
KApply(f, a) ==
    CASE f.kk = "of" -> Of(a)
      [] f.kk = "leaf" -> Leaf(f.id, Data(a.s \o <<f.id>>))
      [] f.kk = "then" -> Chain(f.g, KApply(f.f, a))
      [] f.kk = "first" -> Map(FnConst(a), KApply(f.f, a))
      [] f.kk = "identity" -> a

\* chainFirst(f) = chain((a) => pipe(f(a), map(() => a)))
ChainFirst(f, ma) == Chain(KFirst(f), ma)

\* flatten = chain(identity)
Flatten(mma) == Chain(KIdentity, mma)

\* ---------------------------------------------------------------- host promises

\* A world is the mutable host state an invocation or a callback works on;
\* ret is the promise the last operation returned.
NoP == [r |-> 0, i |-> 0]

World == [heap |-> heap, jobs |-> jobs, timers |-> timers, log |-> log, ret |-> NoP]

P(w, p) == w.heap[p.r][p.i]

SetP(w, p, rec) == [w EXCEPT !.heap[p.r][p.i] = rec]

Logged(w, run, ev) == [w EXCEPT !.log[run] = Append(@, ev)]

\* The position of the next settlement among those of invocation run: at
\* records, for each settled promise, when it was settled (observation only).
Stamp(w, run) == 1 + Cardinality({i \in 1..Len(w.heap[run]) : w.heap[run][i].st # "pending"})

\* new Promise(...) / Promise.resolve(val): a promise in state st
NewPromise(w, run, st, val, src) ==
    [w EXCEPT !.heap[run] = Append(@, [st |-> st, val |-> val, rs |-> <<>>, src |-> src,
                                       at |-> IF st = "pending" THEN 0 ELSE Stamp(w, run)]),
              !.ret = [r |-> run, i |-> Len(w.heap[run]) + 1]]

\* Fulfil (ok) or reject a promise with val: a settled promise is left as it
\* is; otherwise each registered reaction becomes a job, in registration order.
Settle(w, p, ok, val) ==
    LET pr == P(w, p)
        newjobs == [n \in 1..Len(pr.rs) |->
                       [cb |-> pr.rs[n].cb, d |-> pr.rs[n].d, arg |-> val, ok |-> ok]]
    IN  IF pr.st # "pending" THEN w
        ELSE [SetP(w, p, [pr EXCEPT !.st = IF ok THEN "fulfilled" ELSE "rejected",
                                    !.val = val, !.rs = <<>>, !.at = Stamp(w, p.r)])
                EXCEPT !.jobs = @ \o newjobs]

\* Register reaction cb on p with derived promise d (NoP: the derived promise
\* is not observable, as for the handlers Promise.race and Promise.all attach).
Subscribe(w, p, cb, d) ==
    LET pr == P(w, p)
    IN  IF pr.st = "pending"
        THEN SetP(w, p, [pr EXCEPT !.rs = Append(@, [cb |-> cb, d |-> d])])
        ELSE [w EXCEPT !.jobs = Append(@, [cb |-> cb, d |-> d, arg |-> pr.val,
                                           ok |-> pr.st = "fulfilled"])]

\* p.then(cb), called on behalf of invocation run: a new pending promise,
\* derived from p, is returned
Then(w, run, p, cb) ==
    LET w1 == NewPromise(w, run, "pending", NoVal, [o |-> "then"])
        d == w1.ret
    IN  [Subscribe(w1, p, cb, d) EXCEPT !.ret = d]

\* A then-callback returned promise q: the derived promise d follows q, which
\* the host arranges in a job of its own (NewPromiseResolveThenableJob).
Follow(w, d, q) ==
    [w EXCEPT !.jobs = Append(@, [cb |-> [c |-> "thenable", target |-> d, q |-> q],
                                  d |-> NoP, arg |-> NoVal, ok |-> TRUE])]

RECURSIVE SubscribeEach(_, _, _, _, _)
\* for each of the first n promises of ps: ps[i].then(resolve-element, reject)
SubscribeEach(w, ps, n, c, target) ==
    IF n = 0 THEN w
    ELSE Subscribe(SubscribeEach(w, ps, n - 1, c, target), ps[n],
                   [c |-> c, target |-> target, i |-> n], NoP)

\* Promise.race(ps)
PromiseRace(w, run, ps) ==
    LET w1 == NewPromise(w, run, "pending", NoVal, [o |-> "race", ps |-> ps])
    IN  [SubscribeEach(w1, ps, Len(ps), "raceElem", w1.ret) EXCEPT !.ret = w1.ret]

\* Promise.all(ps)
PromiseAll(w, run, ps) ==
    LET w1 == NewPromise(w, run, "pending", NoVal,
                         [o |-> "all", ps |-> ps, vals |-> [n \in 1..Len(ps) |-> NoVal],
                          rem |-> Len(ps)])
    IN  [SubscribeEach(w1, ps, Len(ps), "allElem", w1.ret) EXCEPT !.ret = w1.ret]

\* ---------------------------------------------------------------- invoking a task

RECURSIVE Invoke(_, _, _)

\* a caller's task is invoked: its computation starts, its promise is pending
InvokeLeaf(w, t, run) ==
    NewPromise(Logged(w, run, [e |-> "inv", id |-> t.id]), run, "pending", NoVal,
               [o |-> "leaf", id |-> t.id, v |-> t.v, rej |-> t.rej])

\* a never that is resolved at once: () => Promise.resolve(undefined)
InvokeNeverResolved(w, t, run) == NewPromise(w, run, "fulfilled", NoVal, [o |-> "never"])

\* () => new Promise((_) => undefined)
InvokeNever(w, t, run) == NewPromise(w, run, "pending", NoVal, [o |-> "never"])

\* () => Promise.resolve(a)
InvokeOf(w, t, run) == NewPromise(w, run, "fulfilled", t.a, [o |-> "of"])

\* () => Promise.resolve(ma())
InvokeFromIO(w, t, run) ==
    NewPromise(Logged(w, run, [e |-> "io", id |-> t.id]), run, "fulfilled", t.v, [o |-> "fromIO"])

\* a concat that runs y before x: () => y().then((ry) => x().then(...))
InvokeConcatYFirst(w, t, run) ==
    LET w1 == Invoke(w, t.y, run)
    IN  Then(w1, run, w1.ret, [c |-> "concatX", y |-> t.x])

\* () => x().then((rx) => y().then((ry) => S.concat(rx, ry)))
InvokeConcat(w, t, run) ==
    LET w1 == Invoke(w, t.x, run)
    IN  Then(w1, run, w1.ret, [c |-> "concatX", y |-> t.y])

\* () => Promise.race([x(), y()])
InvokeRace(w, t, run) ==
    LET w1 == Invoke(w, t.x, run)
        w2 == Invoke(w1, t.y, run)
    IN  PromiseRace(w2, run, <<w1.ret, w2.ret>>)

\* () => new Promise((resolve) => { setTimeout(() => { ma().then(resolve) }, millis) })
InvokeDelay(w, t, run) ==
    LET w1 == NewPromise(w, run, "pending", NoVal, [o |-> "delay"])
    IN  [w1 EXCEPT !.timers = Append(@, [millis |-> t.millis, ma |-> t.ma, target |-> w1.ret])]

\* a map that keeps the promise of its first invocation: fa() is called once
\* and every later invocation maps over that promise
InvokeMapMemoized(w, t, run) ==
    IF run = 1
    THEN LET w1 == Invoke(w, t.fa, run)
         IN  Then(w1, run, w1.ret, [c |-> "map", f |-> t.f])
    ELSE Then(w, run, [r |-> 1, i |-> 1], [c |-> "map", f |-> t.f])

\* () => fa().then(f)
InvokeMap(w, t, run) ==
    LET w1 == Invoke(w, t.fa, run)
    IN  Then(w1, run, w1.ret, [c |-> "map", f |-> t.f])

\* an ap that passes the promises in the other order: Promise.all([fa(), fab()])
InvokeApSwapped(w, t, run) ==
    LET w1 == Invoke(w, t.fa, run)
        w2 == Invoke(w1, t.fab, run)
        w3 == PromiseAll(w2, run, <<w1.ret, w2.ret>>)
    IN  Then(w3, run, w3.ret, [c |-> "apply"])

\* () => Promise.all([fab(), fa()]).then(([f, a]) => f(a))
InvokeAp(w, t, run) ==
    LET w1 == Invoke(w, t.fab, run)
        w2 == Invoke(w1, t.fa, run)
        w3 == PromiseAll(w2, run, <<w1.ret, w2.ret>>)
    IN  Then(w3, run, w3.ret, [c |-> "apply"])

\* () => ma().then((a) => f(a)())
InvokeChain(w, t, run) ==
    LET w1 == Invoke(w, t.ma, run)
    IN  Then(w1, run, w1.ret, [c |-> "chain", f |-> t.f])

\* t(): run the body of the closure t on behalf of invocation run
Invoke(w, t, run) ==
    CASE t.op = "leaf" -> InvokeLeaf(w, t, run)
      [] t.op = "never" -> InvokeNever(w, t, run)
      [] t.op = "of" -> InvokeOf(w, t, run)
      [] t.op = "fromIO" -> InvokeFromIO(w, t, run)
      [] t.op = "concat" -> InvokeConcat(w, t, run)
      [] t.op = "race" -> InvokeRace(w, t, run)
      [] t.op = "delay" -> InvokeDelay(w, t, run)
      [] t.op = "map" -> InvokeMap(w, t, run)
      [] t.op = "ap" -> InvokeAp(w, t, run)
      [] t.op = "chain" -> InvokeChain(w, t, run)

\* ---------------------------------------------------------------- callbacks

\* A reaction without a rejection handler, run for a rejected promise: the
\* derived promise is rejected with the same reason.
PassRejection(w, job) == Settle(w, job.d, FALSE, job.arg)

\* f, of fa().then(f)
MapCallback(w, job) == Settle(w, job.d, TRUE, Apply(job.cb.f, job.arg))

\* (rx) => y().then((ry) => S.concat(rx, ry))
ConcatXCallback(w, job) ==
    LET w1 == Invoke(w, job.cb.y, job.d.r)
        w2 == Then(w1, job.d.r, w1.ret, [c |-> "concatY", rx |-> job.arg])
    IN  Follow(w2, job.d, w2.ret)

\* a concat that forgets x's value: (ry) => ry
ConcatYCallbackDropsX(w, job) == Settle(w, job.d, TRUE, job.arg)

\* (ry) => S.concat(rx, ry)
ConcatYCallback(w, job) == Settle(w, job.d, TRUE, SConcat(job.cb.rx, job.arg))

\* a chain that calls f and resolves with the value of ma: (a) => (f(a), a)
ChainCallbackNotInvoked(w, job) ==
    Settle(Logged(w, job.d.r, [e |-> "call", f |-> job.cb.f]), job.d, TRUE, job.arg)

\* (a) => f(a)()
ChainCallback(w, job) ==
    LET w0 == Logged(w, job.d.r, [e |-> "call", f |-> job.cb.f])
        w1 == Invoke(w0, KApply(job.cb.f, job.arg), job.d.r)
    IN  Follow(w1, job.d, w1.ret)

\* ([f, a]) => f(a): calling what is not a function throws
ApCallback(w, job) ==
    IF IsFn(job.arg.items[1])
    THEN Settle(w, job.d, TRUE, Apply(job.arg.items[1], job.arg.items[2]))
    ELSE Settle(w, job.d, FALSE, Err)

\* a race whose promise can be settled again: the last element to settle wins
RaceElementLastWins(w, job) ==
    LET pr == P(w, job.cb.target)
    IN  IF pr.st = "pending" THEN Settle(w, job.cb.target, job.ok, job.arg)
        ELSE SetP(w, job.cb.target,
                  [pr EXCEPT !.st = IF job.ok THEN "fulfilled" ELSE "rejected", !.val = job.arg])

RECURSIVE CancelPending(_, _, _)
\* abort the pending ones of the first n promises of ps
CancelPending(w, ps, n) ==
    IF n = 0 THEN w
    ELSE LET w1 == CancelPending(w, ps, n - 1)
         IN  IF P(w1, ps[n]).st = "pending"
             THEN SetP(w1, ps[n], [P(w1, ps[n]) EXCEPT !.st = "cancelled"])
             ELSE w1

\* a race that aborts the elements still pending once it is settled
RaceElementCancelsLosers(w, job) ==
    LET w1 == Settle(w, job.cb.target, job.ok, job.arg)
        ps == P(w, job.cb.target).src.ps
    IN  CancelPending(w1, ps, Len(ps))

\* the handlers Promise.race attaches to each element: settle the race promise
RaceElement(w, job) == Settle(w, job.cb.target, job.ok, job.arg)

\* the handlers Promise.all attaches to each element: store the value and
\* fulfil with the array once none is missing; reject on the first rejection
AllElement(w, job) ==
    LET all == P(w, job.cb.target)
        vals == [all.src.vals EXCEPT ![job.cb.i] = job.arg]
        w1 == SetP(w, job.cb.target, [all EXCEPT !.src.vals = vals, !.src.rem = @ - 1])
    IN  IF ~job.ok THEN Settle(w, job.cb.target, FALSE, job.arg)
        ELSE IF all.src.rem = 1 THEN Settle(w1, job.cb.target, TRUE, Arr(vals))
        ELSE w1

\* resolve, of ma().then(resolve) in delay
DelayResolve(w, job) == Settle(w, job.cb.target, TRUE, job.arg)

\* the host's job for a promise returned from a callback: q.then(resolve, reject)
ThenableJob(w, job) ==
    Subscribe(w, job.cb.q, [c |-> "adopt", target |-> job.cb.target], NoP)

\* resolve / reject of the promise that follows another
Adopt(w, job) == Settle(w, job.cb.target, job.ok, job.arg)

\* the callbacks registered with then(onFulfilled) alone
OnFulfilledOnly == {"map", "concatX", "concatY", "chain", "apply", "delayResolve"}

\* run one promise job
RunCallback(w, job) ==
    IF ~job.ok /\ job.cb.c \in OnFulfilledOnly THEN PassRejection(w, job)
    ELSE CASE job.cb.c = "map" -> MapCallback(w, job)
           [] job.cb.c = "concatX" -> ConcatXCallback(w, job)
           [] job.cb.c = "concatY" -> ConcatYCallback(w, job)
           [] job.cb.c = "chain" -> ChainCallback(w, job)
           [] job.cb.c = "apply" -> ApCallback(w, job)
           [] job.cb.c = "raceElem" -> RaceElement(w, job)
           [] job.cb.c = "allElem" -> AllElement(w, job)
           [] job.cb.c = "delayResolve" -> DelayResolve(w, job)
           [] job.cb.c = "thenable" -> ThenableJob(w, job)
           [] job.cb.c = "adopt" -> Adopt(w, job)

\* ---------------------------------------------------------------- the tasks under test

\* the caller's tasks and functions the combinators are applied to
X == Leaf(1, Data(<<1>>))

Y == Leaf(2, Data(<<2>>))

Z == Leaf(3, Data(<<3>>))

A7 == Data(<<7>>)

A8 == Data(<<8>>)

F9 == FnAppend(<<9>>)

ConcatPrograms ==
    {<<SemigroupConcat(x, y)>> : x \in {X, Of(A7), Never}, y \in {Y, Of(A8)}}

RacePrograms ==
    {<<RaceConcat(x, y)>> : x \in {X, Of(A7), Never}, y \in {Y, Of(A8), Never}}
    \cup {<<RaceConcat(Map(F9, X), Y)>>}

OtherPrograms ==
    {<<Map(F9, X)>>, <<Ap(X, Leaf(2, F9))>>, <<Ap(Of(A7), Of(F9))>>,
     <<ApFirst(Of(A8), X)>>, <<ApSecond(Of(A8), X)>>,
     <<Chain(KLeaf(2), X)>>, <<ChainFirst(KLeaf(2), X)>>,
     <<Flatten(Leaf(1, Y))>>, <<Flatten(Of(X))>>,
     <<Delay(1, X)>>, <<Delay(1, Of(A7))>>,
     <<FromIO(4, A7)>>, <<Map(F9, FromIO(4, A7))>>}

\* tasks built over a caller's task that rejects, against the Task contract
RejectingPrograms ==
    {<<Map(F9, RejLeaf(1))>>, <<SemigroupConcat(X, RejLeaf(2))>>,
     <<RaceConcat(RejLeaf(1), Y)>>, <<Ap(RejLeaf(1), Of(F9))>>,
     <<Chain(KLeaf(2), RejLeaf(1))>>, <<Delay(1, RejLeaf(1))>>}

\* the two sides of the functor identity law and of the three monad laws
FunctorIdentityPairs == {<<Map(FnIdentity, ma), ma>> : ma \in {X, Of(A7)}}

LeftIdentityPairs == {<<Chain(f, Of(A7)), KApply(f, A7)>> : f \in {KLeaf(2), KOf}}

RightIdentityPairs == {<<Chain(KOf, ma), ma>> : ma \in {X, Of(A7)}}

AssociativityPairs ==
    {<<Chain(g, Chain(f, ma)), Chain(KThen(f, g), ma)>> :
        ma \in {X, Of(A7)}, f \in {KLeaf(2), KOf}, g \in {KLeaf(3)}}

\* the two sides of the semigroup's associativity and of the monoid's identity laws
ConcatAssociativityPairs ==
    {<<SemigroupConcat(SemigroupConcat(x, Y), z), SemigroupConcat(x, SemigroupConcat(Y, z))>> :
        x \in {X, Of(A7)}, z \in {Z, Of(A8)}}

MonoidIdentityPairs ==
    {<<MonoidConcat(x, MonoidEmpty), x>> : x \in {X, Of(A7)}}
    \cup {<<MonoidConcat(MonoidEmpty, x), x>> : x \in {X, Of(A7)}}

Programs ==
    ConcatPrograms \cup RacePrograms \cup OtherPrograms \cup RejectingPrograms
    \cup FunctorIdentityPairs \cup LeftIdentityPairs \cup RightIdentityPairs
    \cup AssociativityPairs \cup ConcatAssociativityPairs \cup MonoidIdentityPairs

\* ---------------------------------------------------------------- actions

ArrIdle == [st |-> "idle"]

\* Building the task(s) under test: the combinators return closures and
\* invoke nothing.
Init ==
    /\ prog \in Programs
    /\ runs = <<>>
    /\ heap = <<>>
    /\ jobs = <<>>
    /\ timers = <<>>
    /\ log = <<>>
    /\ arr = ArrIdle

Commit(w) ==
    /\ heap' = w.heap
    /\ jobs' = w.jobs
    /\ timers' = w.timers
    /\ log' = w.log

\* how often the caller invokes: a single task MaxRuns times, the two sides of
\* a law once each
RunLimit == IF Len(prog) = 1 THEN MaxRuns ELSE Len(prog)

\* The caller invokes a task under test (the sides of a law in turn).
Run ==
    /\ Len(runs) < RunLimit
    /\ LET run == Len(runs) + 1
           t == (Len(runs) % Len(prog)) + 1
           w == Invoke([World EXCEPT !.heap = Append(@, <<>>), !.log = Append(@, <<>>)],
                       prog[t], run)
       IN  /\ Commit(w)
           /\ runs' = Append(runs, [t |-> t, p |-> w.ret])
    /\ UNCHANGED <<prog, arr>>

\* The next promise job of the host runs a callback of kind c for a fulfilled
\* promise (or, for a rejected one, a callback that handles rejection).
NextJobIs(c) ==
    /\ jobs # <<>>
    /\ Head(jobs).cb.c = c
    /\ Head(jobs).ok \/ c \notin OnFulfilledOnly

\* The host takes the job off the queue and runs it to completion.
RunNextJob ==
    /\ Commit(RunCallback([World EXCEPT !.jobs = Tail(jobs)], Head(jobs)))
    /\ UNCHANGED <<prog, runs, arr>>

MapStep == NextJobIs("map") /\ RunNextJob

ConcatXStep == NextJobIs("concatX") /\ RunNextJob

ConcatYStep == NextJobIs("concatY") /\ RunNextJob

ChainStep == NextJobIs("chain") /\ RunNextJob

ApStep == NextJobIs("apply") /\ RunNextJob

RaceStep == NextJobIs("raceElem") /\ RunNextJob

AllStep == NextJobIs("allElem") /\ RunNextJob

DelayResolveStep == NextJobIs("delayResolve") /\ RunNextJob

ThenableStep == NextJobIs("thenable") /\ RunNextJob

AdoptStep == NextJobIs("adopt") /\ RunNextJob

\* The next job belongs to a rejected promise and has no rejection handler.
RejectionStep ==
    /\ jobs # <<>>
    /\ ~Head(jobs).ok
    /\ Head(jobs).cb.c \in OnFulfilledOnly
    /\ RunNextJob

\* the promises created so far
Promises == UNION {{[r |-> r, i |-> i] : i \in 1..Len(heap[r])} : r \in 1..Len(heap)}

\* The computation a caller's task started completes: its promise is
\* fulfilled with its value (rejected, for a task that breaks the contract).
\* This may happen between any two jobs of the host.
LeafSettle(p) ==
    /\ heap[p.r][p.i].st = "pending"
    /\ heap[p.r][p.i].src.o = "leaf"
    /\ LET src == heap[p.r][p.i].src
       IN  Commit(Settle(Logged(World, p.r, [e |-> "res", id |-> src.id]), p, ~src.rej, src.v))
    /\ UNCHANGED <<prog, runs, arr>>

\* A timer set by delay expires and the host calls () => { ma().then(resolve) }.
\* Timer callbacks are tasks of the host's event loop: they run when no
\* promise job is left.  Which of several pending timers expires first
\* depends on when each was set, and is left open.
Timeout(n) ==
    /\ jobs = <<>>
    /\ LET tm == timers[n]
           w0 == [World EXCEPT !.timers = SubSeq(timers, 1, n - 1) \o SubSeq(timers, n + 1, Len(timers))]
           w1 == Invoke(w0, tm.ma, tm.target.r)
       IN  Commit(Then(w1, tm.target.r, w1.ret, [c |-> "delayResolve", target |-> tm.target]))
    /\ UNCHANGED <<prog, runs, arr>>

Next ==
    \/ Run
    \/ MapStep
    \/ ConcatXStep
    \/ ConcatYStep
    \/ ChainStep
    \/ ApStep
    \/ RaceStep
    \/ AllStep
    \/ DelayResolveStep
    \/ ThenableStep
    \/ AdoptStep
    \/ RejectionStep
    \/ \E p \in Promises : LeafSettle(p)
    \/ \E n \in 1..Len(timers) : Timeout(n)

Spec == Init /\ [][Next]_vars


\* ---------------------------------------------------------------- ReadonlyArray: chunksOf

\* An array is a sequence; index i of the source is index i + 1 here.
Min(a, b) == IF a < b THEN a ELSE b

Max(a, b) == IF a > b THEN a ELSE b

\* as.slice(start, end): a negative index counts from the end, every index
\* is clamped to the array
Slice(as, start, end) ==
    LET len == Len(as)
        k == IF start < 0 THEN Max(len + start, 0) ELSE Min(start, len)
        final == IF end < 0 THEN Max(len + end, 0) ELSE Min(end, len)
    IN  SubSeq(as, k + 1, final)

\* as.slice(start)
SliceFrom(as, start) == Slice(as, start, Len(as))

empty == <<>>

isNonEmpty(as) == Len(as) > 0

isOutOfBound(i, as) == i < 0 \/ i >= Len(as)

\* a splitAt that loses the element at the cut: [as.slice(0, n), as.slice(n + 1)]
splitAtSkipsOne(n, as) == <<Slice(as, 0, n), SliceFrom(as, n + 1)>>

\* splitAt(n)(as) = [as.slice(0, n), as.slice(n)]
splitAt(n, as) == <<Slice(as, 0, n), SliceFrom(as, n)>>

RECURSIVE chopLoop(_, _, _)
\* the loop of chop(splitAt(n)): while (isNonEmpty(cs)) { [b, c] = f(cs); result.push(b); cs = c }
chopLoop(n, result, cs) ==
    IF isNonEmpty(cs)
    THEN LET bc == splitAt(n, cs) IN chopLoop(n, Append(result, bc[1]), bc[2])
    ELSE result

\* chop(splitAt(n))(as)
chop(n, as) == chopLoop(n, <<>>, as)

\* a chunksOf without the case of the empty array
chunksOfNoEmptyCase(n, as) ==
    IF isOutOfBound(n - 1, as) THEN <<as>> ELSE chop(n, as)

\* chunksOf(n)(as)
chunksOf(n, as) ==
    IF Len(as) = 0 THEN empty
    ELSE IF isOutOfBound(n - 1, as) THEN <<as>>
    ELSE chop(n, as)

\* the arrays of length at most MaxLen
Elems == {1, 2}

Arrays == UNION {[1..l -> Elems] : l \in 0..MaxLen}

InitArray ==
    /\ prog = <<>>
    /\ runs = <<>>
    /\ heap = <<>>
    /\ jobs = <<>>
    /\ timers = <<>>
    /\ log = <<>>
    /\ arr \in [st : {"input"}, n : 0..MaxN, xs : Arrays, ys : Arrays]

\* the caller chunks xs, ys and xs.concat(ys)
CallChunksOf ==
    /\ arr.st = "input"
    /\ arr' = [st |-> "chunked", n |-> arr.n, xs |-> arr.xs, ys |-> arr.ys,
               cx |-> chunksOf(arr.n, arr.xs),
               cy |-> chunksOf(arr.n, arr.ys),
               cxy |-> chunksOf(arr.n, arr.xs \o arr.ys)]
    /\ UNCHANGED <<prog, runs, heap, jobs, timers, log>>

NextArray == CallChunksOf

SpecArray == InitArray /\ [][NextArray]_vars

\* ---------------------------------------------------------------- properties of Task

\* the task the r-th invocation invoked, and the promise it returned
RunTerm(r) == prog[runs[r].t]

Result(r) == heap[runs[r].p.r][runs[r].p.i]

Started == 1..Len(runs)

\* the promises of invocation r that invoking the caller's task or constant t created
PromisesOf(r, t) ==
    {i \in 1..Len(heap[r]) :
        LET pr == heap[r][i]
        IN  CASE t.op = "leaf" -> pr.src.o = "leaf" /\ pr.src.id = t.id
              [] t.op = "of" -> pr.src.o = "of" /\ pr.val = t.a
              [] t.op = "never" -> pr.src.o = "never"
              [] OTHER -> FALSE}

Atomic(t) == t.op \in {"leaf", "of", "never"}

\* the positions in log[r] of event ev
Positions(r, ev) == {n \in 1..Len(log[r]) : log[r][n] = ev}

InvEv(id) == [e |-> "inv", id |-> id]

ResEv(id) == [e |-> "res", id |-> id]

\* C1: getSemigroup(S).concat(x, y), invoked, invokes x first and once, invokes
\* y (once) only after x's promise is fulfilled, and is fulfilled only after
\* y's promise is, with S.concat(rx, ry).
C1_SequentialConcat ==
    \A r \in Started :
        LET t == RunTerm(r)
        IN  (t.op = "concat" /\ Atomic(t.x) /\ Atomic(t.y)) =>
              LET xs == PromisesOf(r, t.x)
                  ys == PromisesOf(r, t.y)
              IN  /\ xs = {1}
                  /\ Cardinality(ys) <= 1
                  /\ \A j \in ys : heap[r][1].st = "fulfilled" /\ j > 1
                  /\ (t.y.op = "leaf" =>
                        \A n \in Positions(r, InvEv(t.y.id)) :
                            t.x.op = "leaf" => \E m \in Positions(r, ResEv(t.x.id)) : m < n)
                  /\ (Result(r).st = "fulfilled" =>
                        \E j \in ys : /\ heap[r][j].st = "fulfilled"
                                      /\ heap[r][j].at < Result(r).at
                                      /\ Result(r).val = SConcat(heap[r][1].val, heap[r][j].val))

\* a concatenation of two tasks of the caller has resolved
C1_Witness ==
    \E r \in Started :
        /\ RunTerm(r) = SemigroupConcat(X, Y)
        /\ Result(r).st = "fulfilled"
        /\ Result(r).val = Data(<<1, 2>>)

\* C2: getRaceMonoid().concat(x, y), invoked, invokes x and y in the same
\* step, and its promise settles as whichever of the two promises settled
\* first did, whatever settles later; it is settled once the host has run the
\* jobs of the first settlement.
C2_RaceFirstWins ==
    \A r \in Started :
        LET t == RunTerm(r)
            out == Result(r)
        IN  t.op = "race" =>
              /\ out.src.o = "race"
              /\ Len(out.src.ps) = 2
              /\ \A x \in {t.x, t.y} : x.op = "leaf" =>
                     \E n \in Positions(r, InvEv(x.id)) : n <= 2
              /\ LET px == P(World, out.src.ps[1])
                     py == P(World, out.src.ps[2])
                     settled == {q \in {px, py} : q.st # "pending"}
                     first == CHOOSE q \in settled : \A q2 \in settled : q.at <= q2.at
                 IN  /\ px.at # py.at \/ px.at = 0
                     /\ out.st # "pending" =>
                           /\ settled # {}
                           /\ out.st = first.st
                           /\ out.val = first.val
                           /\ out.at > first.at
                     /\ (settled # {} /\ jobs = <<>>) => out.st # "pending"

\* y resolved first and won the race; x resolved later
C2_Witness ==
    \E r \in Started :
        /\ RunTerm(r) = RaceConcat(X, Y)
        /\ Result(r).st = "fulfilled"
        /\ Result(r).val = Data(<<2>>)
        /\ heap[r][1].st = "fulfilled"
        /\ heap[r][1].val = Data(<<1>>)
        /\ heap[r][1].at > Result(r).at

\* the promises of the caller's tasks invoked so far
LeafPromises == {p \in Promises : heap[p.r][p.i].src.o = "leaf"}

\* every task of the caller invoked so far has completed by itself
InvokedLeavesSettled ==
    \A p \in LeafPromises : heap[p.r][p.i].st \in {"fulfilled", "rejected"}

\* The host keeps running promise jobs and expired timers, and a computation
\* that a caller's task started completes.  The caller need not invoke again.
FairSpec ==
    /\ Spec
    /\ WF_vars(jobs # <<>> /\ RunNextJob)
    /\ WF_vars(\E n \in 1..Len(timers) : Timeout(n))
    /\ WF_vars(\E p \in Promises : LeafSettle(p))

\* C3: no combinator cancels a task it has started: every task of the caller
\* that was invoked (by race, ap, chain, concat, ...) goes on to settle by
\* itself, also after the combined task has settled: from some point on all
\* the caller's tasks that were invoked have settled.
C3_NoCancellation == <>[]InvokedLeavesSettled

\* x won the race and y, the loser, resolved after the race had resolved
C3_Witness ==
    \E r \in Started :
        /\ RunTerm(r) = RaceConcat(X, Y)
        /\ Result(r).st = "fulfilled"
        /\ Result(r).val = Data(<<1>>)
        /\ heap[r][2].st = "fulfilled"
        /\ heap[r][2].val = Data(<<2>>)
        /\ heap[r][2].at > Result(r).at

\* nothing is left to run: no job, no timer, no computation of the caller in
\* progress
Quiet ==
    /\ jobs = <<>>
    /\ timers = <<>>
    /\ \A p \in LeafPromises : heap[p.r][p.i].st # "pending"

\* C4: never is the identity of the race monoid: the promise of never() stays
\* pending; concat(x, never) and concat(never, x) are fulfilled only once x
\* is, with x's value, and are fulfilled as soon as the host has run the jobs
\* of x's fulfilment; concat(never, never) stays pending.
C4_NeverIsRaceIdentity ==
    \A r \in Started :
        LET t == RunTerm(r)
            out == Result(r)
        IN  (t.op = "race" /\ (t.x = RaceEmpty \/ t.y = RaceEmpty)) =>
              LET px == P(World, out.src.ps[IF t.y = RaceEmpty THEN 1 ELSE 2])
              IN  /\ \A i \in PromisesOf(r, RaceEmpty) : heap[r][i].st = "pending"
                  /\ PromisesOf(r, RaceEmpty) # {}
                  /\ (t.x = RaceEmpty /\ t.y = RaceEmpty) => out.st = "pending"
                  /\ out.st # "rejected"
                  /\ out.st = "fulfilled" =>
                        px.st = "fulfilled" /\ out.val = px.val /\ px.at < out.at
                  /\ (px.st = "fulfilled" /\ jobs = <<>>) => out.st = "fulfilled"

\* concat(x, never) and concat(never, y) have resolved with the value of x, of y
C4_Witness ==
    \E r \in Started :
        /\ RunTerm(r) \in {RaceConcat(X, RaceEmpty), RaceConcat(RaceEmpty, Y)}
        /\ Result(r).st = "fulfilled"
        /\ Result(r).val \in {Data(<<1>>), Data(<<2>>)}

\* C5: a Task never fails: as long as no task of the caller has rejected, no
\* promise of any task built by the combinators is rejected.
C5_NeverRejects ==
    (\A p \in LeafPromises : heap[p.r][p.i].st # "rejected")
        => \A p \in Promises : heap[p.r][p.i].st # "rejected"

\* tasks built with ap, apFirst, and delay have resolved
C5_Witness ==
    \E r \in Started :
        /\ RunTerm(r) \in {Ap(Of(A7), Of(F9)), ApFirst(Of(A8), X), Delay(1, X)}
        /\ Result(r).st = "fulfilled"
        /\ Quiet

IsTask(v) == "op" \in DOMAIN v

RECURSIVE KLeafIds(_)
\* the caller's tasks that the function f (of chain) returns
KLeafIds(f) ==
    CASE f.kk = "leaf" -> {f.id}
      [] f.kk = "then" -> KLeafIds(f.f) \cup KLeafIds(f.g)
      [] f.kk = "first" -> KLeafIds(f.f)
      [] OTHER -> {}

RECURSIVE LeafIds(_)
\* the caller's tasks that task t is built from
LeafIds(t) ==
    CASE t.op = "leaf" -> {t.id} \cup (IF IsTask(t.v) THEN LeafIds(t.v) ELSE {})
      [] t.op = "of" -> IF IsTask(t.a) THEN LeafIds(t.a) ELSE {}
      [] t.op \in {"concat", "race"} -> LeafIds(t.x) \cup LeafIds(t.y)
      [] t.op = "delay" -> LeafIds(t.ma)
      [] t.op = "map" -> LeafIds(t.fa)
      [] t.op = "ap" -> LeafIds(t.fab) \cup LeafIds(t.fa)
      [] t.op = "chain" -> LeafIds(t.ma) \cup KLeafIds(t.f)
      [] OTHER -> {}

\* C6: tasks are recomputed on every invocation: before the first invocation
\* a built task has invoked nothing; each invocation returns a promise of its
\* own and invokes each task the built task is made of at most once, and
\* exactly once by the time its promise is fulfilled and nothing is left to
\* run (chain calls f exactly once, fromIO runs the IO exactly once): k
\* invocations run the underlying computations k times.
C6_RecomputedEveryInvocation ==
    /\ runs = <<>> => (heap = <<>> /\ log = <<>> /\ jobs = <<>> /\ timers = <<>>)
    /\ \A r \in Started :
        LET t == RunTerm(r)
            done == Result(r).st = "fulfilled" /\ Quiet
        IN  /\ runs[r].p.r = r
            /\ \A r2 \in Started : r2 # r => runs[r2].p # runs[r].p
            /\ \A id \in LeafIds(t) :
                  /\ Cardinality(Positions(r, InvEv(id))) <= 1
                  /\ done => Cardinality(Positions(r, InvEv(id))) = 1
            /\ t.op = "chain" =>
                  /\ Cardinality(Positions(r, [e |-> "call", f |-> t.f])) <= 1
                  /\ done => Cardinality(Positions(r, [e |-> "call", f |-> t.f])) = 1
            /\ t.op = "fromIO" => Cardinality(Positions(r, [e |-> "io", id |-> t.id])) = 1

\* a mapped task was invoked MaxRuns times and each invocation ran the
\* caller's task again
C6_Witness ==
    /\ prog = <<Map(F9, X)>>
    /\ Len(runs) = MaxRuns
    /\ MaxRuns >= 2
    /\ \A r \in Started :
          /\ Result(r).st = "fulfilled"
          /\ Result(r).val = Data(<<1, 9>>)
          /\ Cardinality(Positions(r, InvEv(1))) = 1

\* the sides of a law have resolved with the same value, and have resolved
\* whenever nothing is left to run
SidesAgree ==
    /\ \A r1, r2 \in Started :
          (Result(r1).st = "fulfilled" /\ Result(r2).st = "fulfilled")
              => Result(r1).val = Result(r2).val
    /\ Quiet => \A r \in Started : Result(r).st = "fulfilled"

MonadLawPairs ==
    FunctorIdentityPairs \cup LeftIdentityPairs \cup RightIdentityPairs \cup AssociativityPairs

\* C7: the functor identity law and the three monad laws hold on resolved
\* values: map(identity)(ma) and ma, chain(f)(of(a)) and f(a), chain(of)(ma)
\* and ma, chain(g)(chain(f)(ma)) and chain(a => chain(g)(f(a)))(ma) resolve
\* with the same value; and chain(f)(ma) calls f only after ma has resolved.
C7_MonadLaws ==
    /\ prog \in MonadLawPairs => SidesAgree
    /\ \A r \in Started :
          LET t == RunTerm(r)
          IN  (t.op = "chain" /\ Atomic(t.ma)) =>
                 \A n \in Positions(r, [e |-> "call", f |-> t.f]) :
                     /\ heap[r][1].st = "fulfilled"
                     /\ t.ma.op = "leaf" => \E m \in Positions(r, ResEv(t.ma.id)) : m < n

\* both sides of the associativity law have resolved, with the value that
\* went through f and then g
C7_Witness ==
    /\ prog = <<Chain(KLeaf(3), Chain(KLeaf(2), X)), Chain(KThen(KLeaf(2), KLeaf(3)), X)>>
    /\ Len(runs) = 2
    /\ Result(1).st = "fulfilled"
    /\ Result(2).st = "fulfilled"
    /\ Result(1).val = Data(<<1, 2, 3>>)

IsInv(ev) == ev.e = "inv"

\* the caller's tasks invocation r invoked, in the order of their invocation
InvOrder(r) ==
    LET invs == SelectSeq(log[r], IsInv)
    IN  [n \in 1..Len(invs) |-> invs[n].id]

RECURSIVE LeafSeq(_)
\* the caller's tasks of a concatenation, from left to right
LeafSeq(t) ==
    CASE t.op = "leaf" -> <<t.id>>
      [] t.op = "concat" -> LeafSeq(t.x) \o LeafSeq(t.y)
      [] OTHER -> <<>>

IsPrefix(s, t) == Len(s) <= Len(t) /\ SubSeq(t, 1, Len(s)) = s

\* C8: for the associative S, concat(concat(x, y), z) and concat(x, concat(y, z))
\* invoke x, y, z in the order x, y, z and resolve with the same value; for
\* getMonoid(M), concat(x, empty) and concat(empty, x) resolve with x's value.
C8_SemigroupLaws ==
    /\ prog \in ConcatAssociativityPairs \cup MonoidIdentityPairs => SidesAgree
    /\ prog \in ConcatAssociativityPairs =>
          \A r \in Started :
              /\ IsPrefix(InvOrder(r), LeafSeq(prog[1]))
              /\ LeafSeq(RunTerm(r)) = LeafSeq(prog[1])
              /\ Result(r).st = "fulfilled" => InvOrder(r) = LeafSeq(prog[1])

\* both groupings of x, y, z have resolved with the same value
C8_Witness ==
    /\ Len(runs) = 2
    /\ Result(1).st = "fulfilled"
    /\ Result(2).st = "fulfilled"
    /\ prog[1] = SemigroupConcat(SemigroupConcat(X, Y), Z)
    /\ Result(1).val = Data(<<1, 2, 3>>)
    /\ InvOrder(2) = <<1, 2, 3>>

\* ---------------------------------------------------------------- properties of chunksOf

\* C9: for n >= 1 and n dividing the length of xs, chunksOf(n)(xs) followed by
\* chunksOf(n)(ys) is chunksOf(n)(xs.concat(ys)); chunksOf(n)([]) is [], not [[]].
C9_ChunksOfConcat ==
    (arr.st = "chunked" /\ arr.n >= 1) =>
        /\ Len(arr.xs) % arr.n = 0 => arr.cx \o arr.cy = arr.cxy
        /\ arr.xs = <<>> => (arr.cx = <<>> /\ arr.cx # << <<>> >>)

\* four elements and then three were chunked by two
C9_Witness ==
    /\ arr.st = "chunked"
    /\ arr.n = 2
    /\ Len(arr.xs) = 4
    /\ Len(arr.ys) = 3
    /\ Len(arr.cxy) = 4

RECURSIVE Flat(_)
\* the pieces concatenated in order
Flat(pieces) == IF pieces = <<>> THEN <<>> ELSE Head(pieces) \o Flat(Tail(pieces))

\* the pieces are the chunks of as by n: ceil(len / n) pieces, all of n
\* elements but the last, which has 1 to n, making up as
Chunked(n, as, pieces) ==
    /\ Len(pieces) = (Len(as) + n - 1) \div n
    /\ \A i \in 1..(Len(pieces) - 1) : Len(pieces[i]) = n
    /\ Len(pieces[Len(pieces)]) \in 1..n
    /\ Flat(pieces) = as

\* C10: for n >= 1 and a non-empty array as, chunksOf(n)(as) has ceil(len / n)
\* pieces, each of n elements but the last, which has between 1 and n, and
\* the pieces in order make up as.
C10_ChunksOfShape ==
    (arr.st = "chunked" /\ arr.n >= 1) =>
        /\ arr.xs # <<>> => Chunked(arr.n, arr.xs, arr.cx)
        /\ arr.ys # <<>> => Chunked(arr.n, arr.ys, arr.cy)
        /\ arr.xs \o arr.ys # <<>> => Chunked(arr.n, arr.xs \o arr.ys, arr.cxy)

\* seven elements were chunked by three: two full pieces and a last one of one
C10_Witness ==
    /\ arr.st = "chunked"
    /\ arr.n = 3
    /\ Len(arr.xs \o arr.ys) = 7
    /\ Len(arr.cxy) = 3
    /\ Len(arr.cxy[3]) = 1

\* ---------------------------------------------------------------- ReadonlyArray: arrays as objects

\* The arrays of a call live in a store m, a sequence of array contents; an
\* array is known by its position in m, and `===` on arrays is equality of
\* positions. A call returns the store it leaves and the value it returns.

\* a newly created array of contents v
Alloc(m, v) == [mem |-> Append(m, v), ret |-> Len(m) + 1]

\* ---------------------------------------------------------------- ReadonlyArray: rotate, take, drop

RECURSIVE rotate(_, _, _)
\* rotate(n)(as)
rotate(m, n, as) ==
    LET len == Len(m[as])
    IN  IF n = 0 \/ len <= 1 \/ len = (IF n < 0 THEN -n ELSE n) THEN [mem |-> m, ret |-> as]
        ELSE IF n < 0 THEN rotate(m, len + n, as)
        ELSE Alloc(m, SliceFrom(m[as], -n) \o Slice(m[as], 0, len - n))

\* takeLeft(n)(as)
takeLeft(n, as) == Slice(as, 0, n)

\* takeRight(n)(as)
takeRight(n, as) == IF n = 0 THEN empty ELSE SliceFrom(as, -n)

\* dropLeft(n)(as)
dropLeft(n, as) == Slice(as, n, Len(as))

\* dropRight(n)(as)
dropRight(n, as) == Slice(as, 0, Len(as) - n)

\* ---------------------------------------------------------------- ReadonlyArray: index operations

\* Option
none == [tag |-> "None"]

some(v) == [tag |-> "Some", value |-> v]

\* __spreadArrays(as): a new array with the elements of as
spreadArrays(m, as) == Alloc(m, m[as])

\* v after v.splice(start, deleteCount, ...items): a negative start counts
\* from the end, start and deleteCount are clamped to the array
splice(v, start, deleteCount, items) ==
    LET len == Len(v)
        k == IF start < 0 THEN Max(len + start, 0) ELSE Min(start, len)
        d == Min(Max(deleteCount, 0), len - k)
    IN  SubSeq(v, 1, k) \o items \o SubSeq(v, k + d + 1, len)

\* the functions the caller passes to modifyAt
Endos == {"identity", "next"}

\* f(a)
ApplyEndo(f, a) == IF f = "identity" THEN a ELSE (a % 3) + 1

\* lookup(i, as)
lookup(m, i, as) ==
    [mem |-> m, ret |-> IF isOutOfBound(i, m[as]) THEN none ELSE some(m[as][i + 1])]

\* unsafeInsertAt(i, a, as)
unsafeInsertAt(m, i, a, as) ==
    LET xs == spreadArrays(m, as)
    IN  [mem |-> [xs.mem EXCEPT ![xs.ret] = splice(@, i, 0, <<a>>)], ret |-> xs.ret]

\* an insertAt that refuses the index after the last element
insertAtNotAtEnd(m, i, a, as) ==
    IF isOutOfBound(i, m[as]) THEN [mem |-> m, ret |-> none]
    ELSE LET r == unsafeInsertAt(m, i, a, as) IN [mem |-> r.mem, ret |-> some(r.ret)]

\* insertAt(i, a)(as)
insertAt(m, i, a, as) ==
    IF i < 0 \/ i > Len(m[as]) THEN [mem |-> m, ret |-> none]
    ELSE LET r == unsafeInsertAt(m, i, a, as) IN [mem |-> r.mem, ret |-> some(r.ret)]

\* unsafeUpdateAt(i, a, as), for an index of as
unsafeUpdateAt(m, i, a, as) ==
    IF m[as][i + 1] = a THEN [mem |-> m, ret |-> as]
    ELSE LET xs == spreadArrays(m, as)
         IN  [mem |-> [xs.mem EXCEPT ![xs.ret][i + 1] = a], ret |-> xs.ret]

\* updateAt(i, a)(as)
updateAt(m, i, a, as) ==
    IF isOutOfBound(i, m[as]) THEN [mem |-> m, ret |-> none]
    ELSE LET r == unsafeUpdateAt(m, i, a, as) IN [mem |-> r.mem, ret |-> some(r.ret)]

\* unsafeDeleteAt(i, as)
unsafeDeleteAt(m, i, as) ==
    LET xs == spreadArrays(m, as)
    IN  [mem |-> [xs.mem EXCEPT ![xs.ret] = splice(@, i, 1, <<>>)], ret |-> xs.ret]

\* deleteAt(i)(as)
deleteAt(m, i, as) ==
    IF isOutOfBound(i, m[as]) THEN [mem |-> m, ret |-> none]
    ELSE LET r == unsafeDeleteAt(m, i, as) IN [mem |-> r.mem, ret |-> some(r.ret)]

\* modifyAt(i, f)(as); called lists the arguments f was called with
modifyAt(m, i, f, as) ==
    IF isOutOfBound(i, m[as]) THEN [mem |-> m, ret |-> none, called |-> <<>>]
    ELSE LET r == unsafeUpdateAt(m, i, ApplyEndo(f, m[as][i + 1]), as)
         IN  [mem |-> r.mem, ret |-> some(r.ret), called |-> <<m[as][i + 1]>>]

\* ---------------------------------------------------------------- ReadonlyArray: Eq and Ord of the elements

\* An Ord of the elements is the sequence of the orders it compares by, first
\* to last: ordNumber is <<"number">>, the Ord monoid's concat is \o and its
\* empty is <<>>; "parity" orders by x % 2, "dual" is ordNumber reversed.
RECURSIVE compare(_, _, _)
\* O.compare(x, y): -1, 0 or 1
compare(O, x, y) ==
    IF O = <<>> THEN 0
    ELSE LET kx == IF Head(O) = "parity" THEN x % 2 ELSE IF Head(O) = "dual" THEN -x ELSE x
             ky == IF Head(O) = "parity" THEN y % 2 ELSE IF Head(O) = "dual" THEN -y ELSE y
         IN  IF kx < ky THEN -1 ELSE IF kx > ky THEN 1 ELSE compare(Tail(O), x, y)

\* E.equals(x, y), E the Eq of an Ord
equals(E, x, y) == compare(E, x, y) = 0

\* getEq(E).equals(xs, ys)
getEq(m, E, xs, ys) ==
    \/ xs = ys
    \/ /\ Len(m[xs]) = Len(m[ys])
       /\ \A i \in 1..Len(m[xs]) : equals(E, m[xs][i], m[ys][i])

RECURSIVE getOrdLoop(_, _, _, _)
\* the loop of getOrd(O).compare from index i on
getOrdLoop(O, a, b, i) ==
    IF i < Min(Len(a), Len(b))
    THEN LET ordering == compare(O, a[i + 1], b[i + 1])
         IN  IF ordering # 0 THEN ordering ELSE getOrdLoop(O, a, b, i + 1)
    ELSE compare(<<"number">>, Len(a), Len(b))

\* a getOrd that orders by length before it looks at the elements
getOrdShortLex(m, O, a, b) ==
    IF Len(m[a]) # Len(m[b]) THEN compare(<<"number">>, Len(m[a]), Len(m[b]))
    ELSE getOrdLoop(O, m[a], m[b], 0)

\* getOrd(O).compare(a, b)
getOrd(m, O, a, b) == getOrdLoop(O, m[a], m[b], 0)

\* ---------------------------------------------------------------- ReadonlyArray: elem, uniq, union, concat

\* elem(E)(a, as): some element of as equals a
elem(E, a, as) == \E i \in 1..Len(as) : equals(E, as[i], a)

RECURSIVE uniqLoop(_, _, _, _)
\* the loop of uniq from index i on: r gets the elements not yet in r
uniqLoop(E, as, i, r) ==
    IF i < Len(as)
    THEN uniqLoop(E, as, i + 1, IF ~elem(E, as[i + 1], r) THEN Append(r, as[i + 1]) ELSE r)
    ELSE r

\* a uniq that only looks at the element kept last
uniqAdjacent(m, E, as) ==
    LET v == m[as]
        keep == SelectSeq([i \in 1..Len(v) |-> i],
                          LAMBDA i : i = 1 \/ ~equals(E, v[i - 1], v[i]))
    IN  IF Len(keep) = Len(v) THEN [mem |-> m, ret |-> as] ELSE Alloc(m, [k \in 1..Len(keep) |-> v[keep[k]]])

\* uniq(E)(as)
uniq(m, E, as) ==
    LET r == uniqLoop(E, m[as], 0, <<>>)
    IN  IF Len(m[as]) = Len(r) THEN [mem |-> m, ret |-> as] ELSE Alloc(m, r)

\* concat(x, y), which is getMonoid().concat
concat(m, x, y) ==
    IF Len(m[x]) = 0 THEN [mem |-> m, ret |-> y]
    ELSE IF Len(m[y]) = 0 THEN [mem |-> m, ret |-> x]
    ELSE Alloc(m, m[x] \o m[y])

\* union(E)(xs, ys)
union(m, E, xs, ys) ==
    LET filtered == Alloc(m, SelectSeq(m[ys], LAMBDA a : ~elem(E, a, m[xs])))
    IN  concat(filtered.mem, xs, filtered.ret)

\* ---------------------------------------------------------------- ReadonlyArray: sort, reverse, cons, snoc

RECURSIVE arraySort(_, _)
\* v after v.sort(O.compare): ordered by O, equal elements in their old order
arraySort(v, O) ==
    IF Len(v) <= 1 THEN v
    ELSE LET init == arraySort(SubSeq(v, 1, Len(v) - 1), O)
             last == v[Len(v)]
             k == Cardinality({i \in 1..Len(init) : compare(O, init[i], last) <= 0})
         IN  SubSeq(init, 1, k) \o <<last>> \o SubSeq(init, k + 1, Len(init))

\* a sort that sorts the array it is given
sortInPlace(m, O, as) == [mem |-> [m EXCEPT ![as] = arraySort(@, O)], ret |-> as]

\* sort(O)(as)
sort(m, O, as) ==
    LET xs == spreadArrays(m, as)
    IN  [mem |-> [xs.mem EXCEPT ![xs.ret] = arraySort(@, O)], ret |-> xs.ret]

RECURSIVE reduceConcat(_, _)
\* ords.reduce(M.concat, M.empty), M the monoid of Ord
reduceConcat(ords, acc) ==
    IF ords = <<>> THEN acc ELSE reduceConcat(Tail(ords), acc \o Head(ords))

\* sortBy(ords)(as)
sortBy(m, ords, as) == sort(m, reduceConcat(ords, <<>>), as)

\* reverse(as)
reverse(m, as) ==
    LET xs == spreadArrays(m, as)
    IN  [mem |-> [xs.mem EXCEPT ![xs.ret] =
                      [i \in 1..Len(@) |-> @[Len(@) + 1 - i]]], ret |-> xs.ret]

\* cons(head, tail)
cons(m, head, tail) == Alloc(m, <<head>> \o m[tail])

\* snoc(init, end)
snoc(m, init, end) == Alloc(m, m[init] \o <<end>>)

\* ---------------------------------------------------------------- ReadonlyArray: the calls

\* the arrays the caller holds, of at most MaxLen elements out of three
OpArrays == UNION {[1..l -> 1..3] : l \in 0..MaxLen}

\* the Ord and Eq instances the caller passes
Ords == {<<"number">>, <<"parity">>, <<"dual">>}

\* the caller holds one array xs, alone in the store at position 1
InitOps ==
    /\ prog = <<>>
    /\ runs = <<>>
    /\ heap = <<>>
    /\ jobs = <<>>
    /\ timers = <<>>
    /\ log = <<>>
    /\ arr \in [st : {"input"}, xs : OpArrays]

\* the caller rotates xs by n
CallRotate ==
    /\ arr.st = "input"
    /\ \E n \in (-MaxN)..MaxN :
        arr' = [st |-> "rotate", n |-> n, xs |-> arr.xs, out |-> rotate(<<arr.xs>>, n, 1)]
    /\ UNCHANGED <<prog, runs, heap, jobs, timers, log>>

\* the caller takes and drops n elements of xs, n a natural number
CallTakeDrop ==
    /\ arr.st = "input"
    /\ \E n \in 0..MaxN :
        arr' = [st |-> "sliced", n |-> n, xs |-> arr.xs,
                tl |-> takeLeft(n, arr.xs), tr |-> takeRight(n, arr.xs),
                dl |-> dropLeft(n, arr.xs), dr |-> dropRight(n, arr.xs)]
    /\ UNCHANGED <<prog, runs, heap, jobs, timers, log>>

\* the caller looks up index i of xs
CallLookup ==
    /\ arr.st = "input"
    /\ \E i \in (-2)..(MaxLen + 1) :
        arr' = [st |-> "lookup", i |-> i, xs |-> arr.xs, out |-> lookup(<<arr.xs>>, i, 1)]
    /\ UNCHANGED <<prog, runs, heap, jobs, timers, log>>

\* the caller inserts a at index i of xs
CallInsertAt ==
    /\ arr.st = "input"
    /\ \E i \in (-2)..(MaxLen + 1), a \in 1..3 :
        arr' = [st |-> "insertAt", i |-> i, a |-> a, xs |-> arr.xs,
                out |-> insertAt(<<arr.xs>>, i, a, 1)]
    /\ UNCHANGED <<prog, runs, heap, jobs, timers, log>>

\* the caller puts a at index i of xs
CallUpdateAt ==
    /\ arr.st = "input"
    /\ \E i \in (-2)..(MaxLen + 1), a \in 1..3 :
        arr' = [st |-> "updateAt", i |-> i, a |-> a, xs |-> arr.xs,
                out |-> updateAt(<<arr.xs>>, i, a, 1)]
    /\ UNCHANGED <<prog, runs, heap, jobs, timers, log>>

\* the caller deletes index i of xs
CallDeleteAt ==
    /\ arr.st = "input"
    /\ \E i \in (-2)..(MaxLen + 1) :
        arr' = [st |-> "deleteAt", i |-> i, xs |-> arr.xs, out |-> deleteAt(<<arr.xs>>, i, 1)]
    /\ UNCHANGED <<prog, runs, heap, jobs, timers, log>>

\* the caller applies one of the functions at index i of xs
CallModifyAt ==
    /\ arr.st = "input"
    /\ \E i \in (-2)..(MaxLen + 1), f \in Endos :
        arr' = [st |-> "modifyAt", i |-> i, f |-> f, xs |-> arr.xs,
                out |-> modifyAt(<<arr.xs>>, i, f, 1)]
    /\ UNCHANGED <<prog, runs, heap, jobs, timers, log>>

\* the caller joins xs with a second array ys, at position 2 of the store
CallUnion ==
    /\ arr.st = "input"
    /\ \E ys \in Arrays, E \in Ords :
        arr' = [st |-> "union", E |-> E, xs |-> arr.xs, ys |-> ys,
                out |-> union(<<arr.xs, ys>>, E, 1, 2)]
    /\ UNCHANGED <<prog, runs, heap, jobs, timers, log>>

\* the caller removes the duplicates of xs, and those of the result
CallUniq ==
    /\ arr.st = "input"
    /\ \E E \in Ords :
        LET out == uniq(<<arr.xs>>, E, 1)
        IN  arr' = [st |-> "uniq", E |-> E, xs |-> arr.xs, out |-> out,
                    again |-> uniq(out.mem, E, out.ret)]
    /\ UNCHANGED <<prog, runs, heap, jobs, timers, log>>

\* the caller compares xs with ys, ys with xs, and asks whether they are equal
CallCompare ==
    /\ arr.st = "input"
    /\ \E ys \in Arrays, O \in Ords :
        arr' = [st |-> "compare", O |-> O, xs |-> arr.xs, ys |-> ys,
                ab |-> getOrd(<<arr.xs, ys>>, O, 1, 2),
                ba |-> getOrd(<<arr.xs, ys>>, O, 2, 1),
                eq |-> getEq(<<arr.xs, ys>>, O, 1, 2)]
    /\ UNCHANGED <<prog, runs, heap, jobs, timers, log>>

\* the caller sorts xs by O
CallSort ==
    /\ arr.st = "input"
    /\ \E O \in Ords :
        arr' = [st |-> "sort", O |-> O, xs |-> arr.xs, out |-> sort(<<arr.xs>>, O, 1)]
    /\ UNCHANGED <<prog, runs, heap, jobs, timers, log>>

\* the caller sorts xs by no, one or two orders
CallSortBy ==
    /\ arr.st = "input"
    /\ \E ords \in {<<>>} \cup {<<O>> : O \in Ords} \cup {<<<<"parity">>, O>> : O \in Ords} :
        arr' = [st |-> "sortBy", ords |-> ords, xs |-> arr.xs,
                out |-> sortBy(<<arr.xs>>, ords, 1)]
    /\ UNCHANGED <<prog, runs, heap, jobs, timers, log>>

\* the caller reverses xs
CallReverse ==
    /\ arr.st = "input"
    /\ arr' = [st |-> "reverse", xs |-> arr.xs, out |-> reverse(<<arr.xs>>, 1)]
    /\ UNCHANGED <<prog, runs, heap, jobs, timers, log>>

\* the caller puts a before xs
CallCons ==
    /\ arr.st = "input"
    /\ \E a \in 1..3 :
        arr' = [st |-> "cons", a |-> a, xs |-> arr.xs, out |-> cons(<<arr.xs>>, a, 1)]
    /\ UNCHANGED <<prog, runs, heap, jobs, timers, log>>

\* the caller puts a after xs
CallSnoc ==
    /\ arr.st = "input"
    /\ \E a \in 1..3 :
        arr' = [st |-> "snoc", a |-> a, xs |-> arr.xs, out |-> snoc(<<arr.xs>>, 1, a)]
    /\ UNCHANGED <<prog, runs, heap, jobs, timers, log>>

\* the caller chunks xs by n; chunksOf writes to the arrays it creates only
CallChunksOfXs ==
    /\ arr.st = "input"
    /\ \E n \in 0..MaxN :
        arr' = [st |-> "chunksOf", n |-> n, xs |-> arr.xs,
                out |-> Alloc(<<arr.xs>>, chunksOf(n, arr.xs))]
    /\ UNCHANGED <<prog, runs, heap, jobs, timers, log>>

\* the caller concatenates xs and a second array ys
CallConcat ==
    /\ arr.st = "input"
    /\ \E ys \in Arrays :
        arr' = [st |-> "concat", xs |-> arr.xs, ys |-> ys, out |-> concat(<<arr.xs, ys>>, 1, 2)]
    /\ UNCHANGED <<prog, runs, heap, jobs, timers, log>>

NextOps ==
    \/ CallRotate \/ CallTakeDrop
    \/ CallLookup \/ CallInsertAt \/ CallUpdateAt \/ CallDeleteAt \/ CallModifyAt
    \/ CallUnion \/ CallUniq \/ CallCompare
    \/ CallSort \/ CallSortBy \/ CallReverse \/ CallCons \/ CallSnoc
    \/ CallChunksOfXs \/ CallConcat

SpecOps == InitOps /\ [][NextOps]_vars

\* ---------------------------------------------------------------- properties of ReadonlyArray

\* the contents of the array a call returned
Returned(out) == out.mem[out.ret]

\* C11: rotate(n)(as) rotates as to the right by n for every integer n: the
\* result has the length of as, and the element at index i of as is at index
\* (i + n) mod len of the result.
C11_RotateRight ==
    arr.st = "rotate" =>
        LET len == Len(arr.xs)
            r == Returned(arr.out)
        IN  /\ Len(r) = len
            /\ \A i \in 0..(len - 1) : r[((i + arr.n) % len) + 1] = arr.xs[i + 1]

\* C12: for a natural number n, dropRight(n)(as) is the prefix of as of length
\* max(0, len - n), takeRight(n)(as) is the suffix of length min(n, len),
\* dropRight followed by takeRight is as, and takeLeft followed by dropLeft is as.
C12_TakeDropSplit ==
    arr.st = "sliced" =>
        LET len == Len(arr.xs)
        IN  /\ arr.dr = SubSeq(arr.xs, 1, Max(0, len - arr.n))
            /\ arr.tr = SubSeq(arr.xs, len - Min(arr.n, len) + 1, len)
            /\ arr.dr \o arr.tr = arr.xs
            /\ arr.tl \o arr.dl = arr.xs

\* v with a at index i in place of what was there
WithAt(v, i, a) == [j \in 1..Len(v) |-> IF j = i + 1 THEN a ELSE v[j]]

\* v without the element at index i
Without(v, i) == SubSeq(v, 1, i) \o SubSeq(v, i + 2, Len(v))

\* v with a put in before index i
WithBefore(v, i, a) == SubSeq(v, 1, i) \o <<a>> \o SubSeq(v, i + 1, Len(v))

\* the array inside the Some a call returned
ReturnedSome(out) == out.mem[out.ret.value]

\* C13: lookup, updateAt, deleteAt and modifyAt return None exactly when i < 0
\* or i >= len (modifyAt then does not call f), insertAt exactly when i < 0 or
\* i > len; every other call returns Some: of as[i] for lookup, and of an array
\* of len (update, modify), len - 1 (delete) or len + 1 (insert) elements that
\* differs from as only at index i.
C13_IndexOptions ==
    LET len == Len(arr.xs)
        bad == arr.i < 0 \/ arr.i >= len
        isNone == arr.out.ret = none
    IN  /\ arr.st = "lookup" =>
            /\ isNone <=> bad
            /\ ~bad => arr.out.ret = some(arr.xs[arr.i + 1])
        /\ arr.st = "updateAt" =>
            /\ isNone <=> bad
            /\ ~bad => /\ arr.out.ret.tag = "Some"
                       /\ ReturnedSome(arr.out) = WithAt(arr.xs, arr.i, arr.a)
        /\ arr.st = "modifyAt" =>
            /\ isNone <=> bad
            /\ bad => arr.out.called = <<>>
            /\ ~bad => /\ arr.out.ret.tag = "Some"
                       /\ ReturnedSome(arr.out) =
                              WithAt(arr.xs, arr.i, ApplyEndo(arr.f, arr.xs[arr.i + 1]))
        /\ arr.st = "deleteAt" =>
            /\ isNone <=> bad
            /\ ~bad => /\ arr.out.ret.tag = "Some"
                       /\ Len(ReturnedSome(arr.out)) = len - 1
                       /\ ReturnedSome(arr.out) = Without(arr.xs, arr.i)
        /\ arr.st = "insertAt" =>
            /\ isNone <=> (arr.i < 0 \/ arr.i > len)
            /\ ~(arr.i < 0 \/ arr.i > len) =>
                   /\ arr.out.ret.tag = "Some"
                   /\ Len(ReturnedSome(arr.out)) = len + 1
                   /\ ReturnedSome(arr.out) = WithBefore(arr.xs, arr.i, arr.a)

\* an element was inserted after the last element of an array of three
C13_Witness ==
    /\ arr.st = "insertAt"
    /\ Len(arr.xs) = 3
    /\ arr.i = 3
    /\ arr.out.ret.tag = "Some"
    /\ Len(ReturnedSome(arr.out)) = 4

\* C14: whenever updateAt(i, a)(as) or modifyAt(i, f)(as) returns Some(xs), xs
\* is a newly created array and not as itself, also when a equals as[i].
C14_UpdateCreatesArray ==
    (arr.st \in {"updateAt", "modifyAt"} /\ arr.out.ret # none) =>
        /\ arr.out.ret.value # 1
        /\ arr.out.ret.value > 1

RECURSIVE IsSubseq(_, _)
\* s is t with some elements left out
IsSubseq(s, t) ==
    IF s = <<>> THEN TRUE
    ELSE IF t = <<>> THEN FALSE
    ELSE IF Head(s) = Head(t) THEN IsSubseq(Tail(s), Tail(t))
    ELSE IsSubseq(s, Tail(t))

\* no two elements of r are equal under E
NoTwoEqual(E, r) ==
    \A i \in 1..Len(r) : \A j \in (i + 1)..Len(r) : ~equals(E, r[i], r[j])

\* C15: union(E)(xs, ys) holds no two elements equal under E, every element
\* of xs and of ys is E-equal to one of its elements, and the elements from xs
\* come before those only in ys, each group in its original order.
C15_UnionUnique ==
    arr.st = "union" =>
        LET r == Returned(arr.out)
            ysOnly == SelectSeq(arr.ys, LAMBDA y : \A i \in 1..Len(arr.xs) : ~equals(arr.E, arr.xs[i], y))
        IN  /\ NoTwoEqual(arr.E, r)
            /\ \A i \in 1..Len(arr.xs) : \E k \in 1..Len(r) : equals(arr.E, r[k], arr.xs[i])
            /\ \A i \in 1..Len(arr.ys) : \E k \in 1..Len(r) : equals(arr.E, r[k], arr.ys[i])
            /\ \E p \in 0..Len(r) :
                   /\ IsSubseq(SubSeq(r, 1, p), arr.xs)
                   /\ IsSubseq(SubSeq(r, p + 1, Len(r)), ysOnly)

\* the first occurrence in v of each class of E, in the order of v
FirstOccurrences(E, v) ==
    LET keep == SelectSeq([i \in 1..Len(v) |-> i],
                          LAMBDA i : \A j \in 1..(i - 1) : ~equals(E, v[j], v[i]))
    IN  [k \in 1..Len(keep) |-> v[keep[k]]]

\* C16: uniq(E)(as) holds no two elements equal under E, it is the first
\* occurrence of each class of E in the order of as, and uniq of the result is
\* the result.
C16_UniqFirstOccurrences ==
    arr.st = "uniq" =>
        /\ NoTwoEqual(arr.E, Returned(arr.out))
        /\ Returned(arr.out) = FirstOccurrences(arr.E, arr.xs)
        /\ Returned(arr.again) = Returned(arr.out)

\* 3, 1, 2, 3 by parity: 3 and 2 stay, the later odd numbers go
C16_Witness ==
    /\ arr.st = "uniq"
    /\ arr.E = <<"parity">>
    /\ arr.xs = <<3, 1, 2, 3>>
    /\ Returned(arr.out) = <<3, 2>>

\* the lexicographic order of a and b by O: the first comparison that is not
\* 0, else the longer array is the greater
Lexicographic(O, a, b) ==
    LET differ == {i \in 1..Min(Len(a), Len(b)) : compare(O, a[i], b[i]) # 0}
        first == CHOOSE i \in differ : \A j \in differ : i <= j
    IN  IF differ # {} THEN compare(O, a[first], b[first])
        ELSE IF Len(a) < Len(b) THEN -1
        ELSE IF Len(a) > Len(b) THEN 1
        ELSE 0

\* C17: getOrd(O).compare(a, b) is the lexicographic order, so that
\* compare(a, b) = -compare(b, a), and it is 0 exactly when getEq(O).equals(a, b).
C17_GetOrdLexicographic ==
    arr.st = "compare" =>
        /\ arr.ab = Lexicographic(arr.O, arr.xs, arr.ys)
        /\ arr.ab = -arr.ba
        /\ (arr.ab = 0) <=> arr.eq

\* a longer array was compared with its own prefix
C17_Witness ==
    /\ arr.st = "compare"
    /\ arr.xs = <<1, 2, 3>>
    /\ arr.ys = <<1, 2>>
    /\ arr.ab = 1
    /\ arr.ba = -1
    /\ ~arr.eq

\* C18: after a call of sort, sortBy, reverse, rotate, insertAt, updateAt,
\* modifyAt, deleteAt, cons, snoc, uniq, chunksOf or getMonoid().concat every
\* array passed in has the length and the elements it had before the call.
C18_InputsUnchanged ==
    arr.st \in {"sort", "sortBy", "reverse", "rotate", "insertAt", "updateAt", "modifyAt",
                "deleteAt", "cons", "snoc", "uniq", "chunksOf", "concat"} =>
        /\ arr.out.mem[1] = arr.xs
        /\ arr.st = "concat" => arr.out.mem[2] = arr.ys
        /\ arr.st = "uniq" => arr.again.mem[1] = arr.xs

\* an unsorted array was sorted into a new array and is still unsorted
C18_Witness ==
    /\ arr.st = "sort"
    /\ arr.O = <<"number">>
    /\ arr.xs = <<3, 1, 2>>
    /\ Returned(arr.out) = <<1, 2, 3>>
    /\ arr.out.ret # 1
    /\ arr.out.mem[1] = <<3, 1, 2>>

\* ---------------------------------------------------------------- ReadonlyArray: chop, one iteration at a time

\* chop(f)(as) has been called with f = splitAt(n), a function that returns
\* for every array: result = [], cs = as
InitChop ==
    /\ prog = <<>>
    /\ runs = <<>>
    /\ heap = <<>>
    /\ jobs = <<>>
    /\ timers = <<>>
    /\ log = <<>>
    /\ arr \in {[st |-> "loop", n |-> n, as |-> as, cs |-> as, result |-> <<>>, pushes |-> 0] :
                    n \in (-1)..MaxN, as \in Arrays}

\* an iteration that pushes f's value and leaves cs as it was
ChopStepKeepsCs ==
    /\ arr.st = "loop"
    /\ isNonEmpty(arr.cs)
    /\ LET bc == splitAt(arr.n, arr.cs)
           pushed == Append(arr.result, bc[1])
       IN  arr' = [arr EXCEPT !.result = IF Len(pushed) > MaxLen + 1 THEN Tail(pushed) ELSE pushed,
                              !.pushes = (@ + 1) % (MaxLen + 2)]
    /\ UNCHANGED <<prog, runs, heap, jobs, timers, log>>

\* one iteration of the loop: [b, c] = f(cs); result.push(b); cs = c. Of
\* result the last MaxLen + 1 values are kept, more than a call that returns
\* from an array of MaxLen elements can push, and pushes counts the pushes
\* modulo MaxLen + 2.
ChopStep ==
    /\ arr.st = "loop"
    /\ isNonEmpty(arr.cs)
    /\ LET bc == splitAt(arr.n, arr.cs)
           pushed == Append(arr.result, bc[1])
       IN  arr' = [arr EXCEPT !.result = IF Len(pushed) > MaxLen + 1 THEN Tail(pushed) ELSE pushed,
                              !.pushes = (@ + 1) % (MaxLen + 2),
                              !.cs = bc[2]]
    /\ UNCHANGED <<prog, runs, heap, jobs, timers, log>>

\* the loop ends on an empty cs: return result
ChopReturn ==
    /\ arr.st = "loop"
    /\ ~isNonEmpty(arr.cs)
    /\ arr' = [arr EXCEPT !.st = "done"]
    /\ UNCHANGED <<prog, runs, heap, jobs, timers, log>>

\* the loop is synchronous code: an iteration that can run does run
FairSpecChop ==
    /\ InitChop
    /\ [][ChopStep \/ ChopReturn]_vars
    /\ WF_vars(ChopStep)
    /\ WF_vars(ChopReturn)

\* C19 as stated: for every finite array as and every terminating function f
\* from a non-empty array to a pair [value, rest], chop(f)(as) terminates and
\* returns a result.
C19_ChopTerminates == <>(arr.st = "done")

\* f = splitAt(n) returns a rest shorter than the non-empty array it is given
Shortens(n) ==
    \A cs \in Arrays : isNonEmpty(cs) => Len(splitAt(n, cs)[2]) < Len(cs)

\* C19, amended: chop(f)(as) terminates and returns its result for every
\* finite array as and every terminating f whose rest is shorter than the
\* non-empty array f is given; the result is then the values of f in order.
C19_ChopTerminatesWhenShortening ==
    /\ Shortens(arr.n) ~> (arr.st = "done")
    /\ [](arr.st = "done" /\ Shortens(arr.n) =>
              arr.result = chop(arr.n, arr.as) /\ arr.pushes = Len(arr.result))

\* chop(splitAt(3)) returned the two pieces of an array of four elements
C19_Witness ==
    /\ arr.st = "done"
    /\ arr.n = 3
    /\ Len(arr.as) = 4
    /\ Len(arr.result) = 2
    /\ Len(arr.result[2]) = 1

\* ---------------------------------------------------------------- Reader

\* A value is a number or a function [fn |-> name]; the functions the callers
\* pass: succ, double, add c, mkAdd (a number to the function add of it), and
\* the functions to a Reader kOf (a to of(a + 1)) and kAddEnv (a to asks(add a)).
applyFn(f, x) ==
    CASE f.fn = "succ" -> x + 1
      [] f.fn = "double" -> 2 * x
      [] f.fn = "add" -> f.c + x
      [] f.fn = "mkAdd" -> [fn |-> "add", c |-> x]
      [] f.fn = "kOf" -> [op |-> "of", a |-> x + 1]
      [] f.fn = "kAddEnv" -> [op |-> "asks", f |-> [fn |-> "add", c |-> x]]

RECURSIVE runReader(_, _)
\* a Reader whose local applies f to the result instead of the environment
runReaderLocalOnResult(r, e) ==
    CASE r.op = "of" -> [v |-> r.a, seen |-> {}]
      [] r.op = "ask" -> [v |-> e, seen |-> {e}]
      [] r.op = "asks" -> [v |-> applyFn(r.f, e), seen |-> {e}]
      [] r.op = "map" ->
            LET x == runReader(r.r, e) IN [v |-> applyFn(r.g, x.v), seen |-> x.seen]
      [] r.op \in {"chain", "chainFirst"} ->
            LET x == runReader(r.r, e)
                y == runReader(applyFn(r.f, x.v), e)
            IN  [v |-> IF r.op = "chain" THEN y.v ELSE x.v, seen |-> x.seen \cup y.seen]
      [] r.op = "ap" ->
            LET f == runReader(r.fab, e)
                x == runReader(r.fa, e)
            IN  [v |-> applyFn(f.v, x.v), seen |-> f.seen \cup x.seen]
      [] r.op = "local" ->
            LET x == runReader(r.r, e) IN [v |-> applyFn(r.f, x.v), seen |-> x.seen]

\* r(e) for a Reader r built by of, ask, asks, map, chain, chainFirst, ap and
\* local: v is the result, seen the environments that ask and asks were given
runReader(r, e) ==
    CASE r.op = "of" -> [v |-> r.a, seen |-> {}]
      [] r.op = "ask" -> [v |-> e, seen |-> {e}]
      [] r.op = "asks" -> [v |-> applyFn(r.f, e), seen |-> {e}]
      [] r.op = "map" ->
            LET x == runReader(r.r, e) IN [v |-> applyFn(r.g, x.v), seen |-> x.seen]
      [] r.op \in {"chain", "chainFirst"} ->
            LET x == runReader(r.r, e)
                y == runReader(applyFn(r.f, x.v), e)
            IN  [v |-> IF r.op = "chain" THEN y.v ELSE x.v, seen |-> x.seen \cup y.seen]
      [] r.op = "ap" ->
            LET f == runReader(r.fab, e)
                x == runReader(r.fa, e)
            IN  [v |-> applyFn(f.v, x.v), seen |-> f.seen \cup x.seen]
      [] r.op = "local" -> runReader(r.r, applyFn(r.f, e))

\* the caller holds a Reader of a number, built in at most two layers over
\* of, ask and asks, and an environment
InitReader ==
    LET fns == {[fn |-> "succ"], [fn |-> "double"]}
        ks == {[fn |-> "kOf"], [fn |-> "kAddEnv"]}
        fabs == {[op |-> "of", a |-> [fn |-> "succ"]], [op |-> "asks", f |-> [fn |-> "mkAdd"]]}
        leaves == {[op |-> "of", a |-> 1], [op |-> "ask"]} \cup {[op |-> "asks", f |-> f] : f \in fns}
        Over(rs) ==
            {[op |-> "map", g |-> g, r |-> r] : g \in fns, r \in rs}
            \cup {[op |-> o, f |-> f, r |-> r] : o \in {"chain", "chainFirst"}, f \in ks, r \in rs}
            \cup {[op |-> "ap", fab |-> fab, fa |-> r] : fab \in fabs, r \in rs}
            \cup {[op |-> "local", f |-> f, r |-> r] : f \in fns, r \in rs}
    IN  /\ prog = <<>>
        /\ runs = <<>>
        /\ heap = <<>>
        /\ jobs = <<>>
        /\ timers = <<>>
        /\ log = <<>>
        /\ arr \in [st : {"input"}, r : leaves \cup Over(leaves) \cup Over(Over(leaves)), e : 0..2]

\* the caller applies the Reader to the environment
CallReader ==
    /\ arr.st = "input"
    /\ arr' = [st |-> "read", r |-> arr.r, e |-> arr.e, out |-> runReader(arr.r, arr.e)]
    /\ UNCHANGED <<prog, runs, heap, jobs, timers, log>>

SpecReader == InitReader /\ [][CallReader]_vars

RECURSIVE HasLocal(_)
\* r holds a local somewhere
HasLocal(r) ==
    CASE r.op \in {"of", "ask", "asks"} -> FALSE
      [] r.op = "map" -> HasLocal(r.r)
      [] r.op \in {"chain", "chainFirst"} -> HasLocal(r.r)
      [] r.op = "ap" -> HasLocal(r.fab) \/ HasLocal(r.fa)
      [] r.op = "local" -> TRUE

====
